---------------------------- MODULE Spec2Model ----------------------------
(***************************************************************************)
(* RustyMark (src/main.rs): a copyright text is stamped on one image file  *)
(* or on every image file of a directory; each result is saved beside its  *)
(* source as watermarked_<file name>.                                      *)
(*                                                                         *)
(* Two specifications share the variables:                                 *)
(*   SpecPos  calculate_text_position applied to bounded inputs;           *)
(*   Spec     process_images, one step per statement of the pipeline.      *)
(***************************************************************************)
EXTENDS Integers, Sequences, FiniteSets

(***************************************************************************)
(* Bounds of the model.                                                    *)
(***************************************************************************)
\* u32/i32 arithmetic is modelled on words of IntBits bits (TLC's integers
\* cannot hold 2^32).  Every modelled dimension is below 2^(IntBits-1), as
\* every dimension a jpg/png/gif/bmp/webp decoder delivers is below 2^31.
IntBits == 16
\* image widths and heights 0..MaxImg (plus the spec's example 100 x 50)
MaxImg == 22
\* text widths and heights 0..MaxText (plus the spec's example 30 x 10)
MaxText == 2

\* the literal 10 of calculate_text_position
Margin == 10

TwoToBits == 2 ^ IntBits
HalfRange == 2 ^ (IntBits - 1)

VARIABLES
    overflowChecks, \* build profile: TRUE = overflow checks on (cargo's dev profile)
    position,       \* config.position
    textDims,       \* <<text_width, text_height>> as measured by text_size
    imgDims,        \* image.dimensions() of the image at hand
    origin,         \* what calculate_text_position returned
    pc,             \* control point
    configOk,       \* the config file reads and parses
    fontOk,         \* config.font_path reads and parses as a font
    input,          \* input_path
    fs0,            \* the directory when the run starts
    fs,             \* the directory now
    mode,           \* "dir" or "file": the branch of process_images taken
    listing,        \* the entries the directory held when read_dir opened it
    returned,       \* the entries read_dir has returned so far
    cur,            \* the path add_copyright_text_image is working on
    image,          \* the decoded image
    buffer,         \* rgba_image
    stages,         \* per path: the pipeline stages run for it, in order
    stderr,         \* per path: the errors printed for it
    written,        \* per path: the files saved for it, [dst, data]
    result          \* what the run ended with

envVars == <<overflowChecks, position, configOk, fontOk, input, fs0>>
workVars == <<textDims, imgDims, origin, image, buffer>>
vars == <<overflowChecks, position, textDims, imgDims, origin, pc, configOk,
          fontOk, input, fs0, fs, mode, listing, returned, cur, image, buffer,
          stages, stderr, written, result>>

Positions ==
    {"top_left", "top_center", "top_right",
     "middle_left", "middle_center", "middle_right",
     "bottom_left", "bottom_center", "bottom_right"}

(***************************************************************************)
(* Rust integer arithmetic.  A value is [panic, val]: an operation whose   *)
(* overflow check fires unwinds (panic = TRUE) and everything after it is  *)
(* skipped.                                                                *)
(***************************************************************************)
Val(v) == [panic |-> FALSE, val |-> v]
Abort == [panic |-> TRUE, val |-> 0]

\* a - b on u32: with overflow checks a panic when b > a, else wrapping
U32Sub(a, b, oc) ==
    IF a >= b THEN Val(a - b)
    ELSE IF oc THEN Abort
    ELSE Val((a - b + TwoToBits) % TwoToBits)

\* `r as i32`: reinterpret the word as two's complement
AsI32(r) ==
    IF r.panic THEN r
    ELSE Val(IF r.val >= HalfRange THEN r.val - TwoToBits ELSE r.val)

\* i32 `/`: truncates toward zero
TruncDiv(a, d) == IF a >= 0 THEN a \div d ELSE -((-a) \div d)

I32Div(r, d) == IF r.panic THEN r ELSE Val(TruncDiv(r.val, d))

I32SubNoMargin(r, d, oc) == r

\* i32 `-`: with overflow checks a panic below i32::MIN, else wrapping
I32Sub(r, d, oc) ==
    IF r.panic THEN r
    ELSE IF r.val - d < -HalfRange
         THEN (IF oc THEN Abort ELSE Val(r.val - d + TwoToBits))
         ELSE Val(r.val - d)

\* the tuple (x, y): x is evaluated first, a panic in either unwinds
Pair(xr, yr) ==
    IF xr.panic \/ yr.panic
    THEN [panic |-> TRUE, x |-> 0, y |-> 0]
    ELSE [panic |-> FALSE, x |-> xr.val, y |-> yr.val]

calculate_text_position_pasted(img_width, img_height, text_width, text_height, pos, oc) ==
    LET dw == U32Sub(img_width, text_width, oc)
        dh == U32Sub(img_height, text_height, oc)
    IN  CASE pos = "top_left" -> Pair(Val(Margin), Val(Margin))
          [] pos = "top_center" -> Pair(I32Div(AsI32(dw), 2), Val(Margin))
          [] pos = "top_right" -> Pair(I32Sub(AsI32(dw), Margin, oc), Val(Margin))
          [] pos = "middle_left" -> Pair(Val(Margin), I32Div(AsI32(dh), 2))
          [] pos = "middle_center" ->
                Pair(I32Div(AsI32(dw), 2), I32Div(AsI32(dh), 2))
          [] pos = "middle_right" ->
                Pair(I32Div(AsI32(dw), 2), I32Div(AsI32(dh), 2))
          [] pos = "bottom_left" -> Pair(Val(Margin), I32Sub(AsI32(dh), Margin, oc))
          [] pos = "bottom_center" ->
                Pair(I32Div(AsI32(dw), 2), I32Sub(AsI32(dh), Margin, oc))
          [] pos = "bottom_right" ->
                Pair(I32Sub(AsI32(dw), Margin, oc), I32Sub(AsI32(dh), Margin, oc))

\* fn calculate_text_position: a closed match over the 9 positions
calculate_text_position(img_width, img_height, text_width, text_height, pos, oc) ==
    LET dw == U32Sub(img_width, text_width, oc)
        dh == U32Sub(img_height, text_height, oc)
    IN  CASE pos = "top_left" -> Pair(Val(Margin), Val(Margin))
          [] pos = "top_center" -> Pair(I32Div(AsI32(dw), 2), Val(Margin))
          [] pos = "top_right" -> Pair(I32Sub(AsI32(dw), Margin, oc), Val(Margin))
          [] pos = "middle_left" -> Pair(Val(Margin), I32Div(AsI32(dh), 2))
          [] pos = "middle_center" ->
                Pair(I32Div(AsI32(dw), 2), I32Div(AsI32(dh), 2))
          [] pos = "middle_right" ->
                Pair(I32Sub(AsI32(dw), Margin, oc), I32Div(AsI32(dh), 2))
          [] pos = "bottom_left" -> Pair(Val(Margin), I32Sub(AsI32(dh), Margin, oc))
          [] pos = "bottom_center" ->
                Pair(I32Div(AsI32(dw), 2), I32Sub(AsI32(dh), Margin, oc))
          [] pos = "bottom_right" ->
                Pair(I32Sub(AsI32(dw), Margin, oc), I32Sub(AsI32(dh), Margin, oc))

NoOrigin == [panic |-> FALSE, x |-> 0, y |-> 0]

(***************************************************************************)
(* Paths and the directory.  A file name is [pre, stem, ext]: pre counts   *)
(* the leading "watermarked_" prefixes, ext is Path::extension() as an     *)
(* Option (<<>> = None).                                                   *)
(***************************************************************************)
\* names carry at most MaxPre prefixes; a name with MaxPre of them is never
\* picked up by the directory scan
MaxPre == 2

BaseNames ==
    {[stem |-> "a", ext |-> <<"png">>],
     [stem |-> "b", ext |-> <<"JPG">>],
     [stem |-> "n", ext |-> <<"txt">>]}

Names == {[pre |-> k, stem |-> b.stem, ext |-> b.ext] : k \in 0 .. MaxPre, b \in BaseNames}

Name(k, stem, ext) == [pre |-> k, stem |-> stem, ext |-> <<ext>>]

\* the directory itself, when it is the input path
RootDir == [pre |-> 0, stem |-> ".", ext |-> <<>>]
\* an input path that names nothing
Missing == [pre |-> 0, stem |-> "missing", ext |-> <<"png">>]
NoPath == [pre |-> 0, stem |-> "", ext |-> <<>>]

NoData == [decodable |-> FALSE, id |-> "", w |-> 0, h |-> 0, marks |-> <<>>]
Picture(id, w, h) == [decodable |-> TRUE, id |-> id, w |-> w, h |-> h, marks |-> <<>>]
Garbage(id) == [decodable |-> FALSE, id |-> id, w |-> 0, h |-> 0, marks |-> <<>>]

Absent == [kind |-> "absent", data |-> NoData]
Dir == [kind |-> "dir", data |-> NoData]
File(d) == [kind |-> "file", data |-> d]

Node(p) == IF p \in Names THEN fs[p] ELSE Absent

\* Path::is_dir, Path::is_file
is_dir(p) == p = RootDir \/ Node(p).kind = "dir"
is_file(p) == p # RootDir /\ Node(p).kind = "file"

\* str::to_lowercase on the extensions that occur
to_lowercase(e) ==
    CASE e = "JPG" -> "jpg"
      [] e = "PNG" -> "png"
      [] OTHER -> e

is_image_file_any_ext(path) == path.ext # <<>>

\* fn is_image_file
is_image_file(path) ==
    IF path.ext # <<>>
    THEN to_lowercase(path.ext[1]) \in {"jpg", "jpeg", "png", "gif", "bmp", "webp"}
    ELSE FALSE

output_path_same_name(image_path) == image_path

\* image_path.with_file_name(format!("watermarked_{}", file_name))
output_path(image_path) == [image_path EXCEPT !.pre = @ + 1]

\* draw_text_mut on the RGBA copy: the text is drawn at (x, y)
draw_text(img, x, y) == [img EXCEPT !.marks = Append(@, <<x, y>>)]

\* text_size(scale, &font, &config.text) of the run's config
TextSize == <<30, 10>>

EmptyLog == [n \in Names |-> <<>>]

(***************************************************************************)
(* Spec: process_images.                                                   *)
(***************************************************************************)
InitDirs ==
    {[n \in Names |->
        CASE n = Name(0, "a", "png") -> a
          [] n = Name(1, "a", "png") -> wa
          [] n = Name(0, "b", "JPG") -> b
          [] n = Name(1, "b", "JPG") -> wb
          [] n = Name(0, "n", "txt") -> t
          [] OTHER -> Absent] :
      a \in {File(Picture("a", 100, 50)), File(Picture("a", 20, 8)), File(Garbage("a"))},
      wa \in {Absent, File(Picture("wa", 100, 50)), File(Garbage("wa"))},
      b \in {Absent, File(Picture("b", 100, 50)), File(Garbage("b"))},
      wb \in {Absent, Dir},
      t \in {Absent, File(Garbage("n"))}}

Init ==
    /\ overflowChecks \in BOOLEAN
    /\ position \in {"bottom_right", "top_left"}
    /\ configOk \in BOOLEAN
    /\ fontOk \in BOOLEAN
    /\ fs0 \in InitDirs
    /\ fs = fs0
    /\ input \in {RootDir, Missing, Name(0, "a", "png"), Name(0, "b", "JPG"),
                  Name(1, "b", "JPG"), Name(0, "n", "txt")}
    /\ ~(input \in Names /\ fs0[input].kind = "dir")
    /\ textDims = <<0, 0>>
    /\ imgDims = <<0, 0>>
    /\ origin = NoOrigin
    /\ image = NoData
    /\ buffer = NoData
    /\ pc = "start"
    /\ mode = "none"
    /\ listing = {}
    /\ returned = {}
    /\ cur = NoPath
    /\ stages = EmptyLog
    /\ stderr = EmptyLog
    /\ written = EmptyLog
    /\ result = "running"

\* let config = parse_config(config_path)?;
ParseConfig ==
    /\ pc = "start"
    /\ IF configOk
       THEN pc' = "dispatch" /\ result' = result
       ELSE pc' = "done" /\ result' = "err_config"
    /\ UNCHANGED <<envVars, workVars, fs, mode, listing, returned, cur, stages,
                   stderr, written>>

\* if input_path.is_dir() { for entry in fs::read_dir(input_path)? ...
EnterDir ==
    /\ pc = "dispatch"
    /\ is_dir(input)
    /\ mode' = "dir"
    /\ listing' = {n \in Names : fs[n].kind # "absent"}
    /\ pc' = "scan"
    /\ UNCHANGED <<envVars, workVars, fs, returned, cur, stages, stderr, written,
                   result>>

\* } else if input_path.is_file() && is_image_file(input_path) {
EnterFile ==
    /\ pc = "dispatch"
    /\ ~is_dir(input)
    /\ is_file(input) /\ is_image_file(input)
    /\ mode' = "file"
    /\ cur' = input
    /\ pc' = "font"
    /\ UNCHANGED <<envVars, workVars, fs, listing, returned, stages, stderr, written,
                   result>>

\* } else { return Err("Invalid input path".into()); }
RejectInput ==
    /\ pc = "dispatch"
    /\ ~is_dir(input)
    /\ ~(is_file(input) /\ is_image_file(input))
    /\ result' = "err_invalid_input"
    /\ pc' = "done"
    /\ UNCHANGED <<envVars, workVars, fs, mode, listing, returned, cur, stages,
                   stderr, written>>

\* What read_dir may return next: every entry the directory held when it was
\* opened, once; an entry created since then may or may not be returned.
Pending ==
    (listing \ returned)
    \cup {n \in Names \ (listing \cup returned) :
            fs[n].kind # "absent" /\ n.pre < MaxPre}

\* one turn of the for loop: if path.is_file() && is_image_file(&path) {...}
NextEntry(path) ==
    /\ pc = "scan"
    /\ path \in Pending
    /\ returned' = returned \cup {path}
    /\ IF is_file(path) /\ is_image_file(path)
       THEN cur' = path /\ pc' = "font"
       ELSE cur' = cur /\ pc' = "scan"
    /\ UNCHANGED <<envVars, workVars, fs, mode, listing, stages, stderr, written,
                   result>>

\* the iterator is exhausted: Ok(())
EndOfDir ==
    /\ pc = "scan"
    /\ listing \subseteq returned
    /\ result' = "ok"
    /\ pc' = "done"
    /\ UNCHANGED <<envVars, workVars, fs, mode, listing, returned, cur, stages,
                   stderr, written>>

Log(stage) == stages' = [stages EXCEPT ![cur] = Append(@, stage)]

\* add_copyright_text_image returned: Ok(()) or Err(kind).
\* In the loop the error is printed and the loop goes on; in single-file
\* mode `?` returns it from process_images.
Leave(kind) ==
    /\ IF mode = "dir"
       THEN /\ pc' = "scan"
            /\ result' = result
            /\ stderr' = IF kind = "ok" THEN stderr
                         ELSE [stderr EXCEPT ![cur] = Append(@, kind)]
       ELSE /\ pc' = "done"
            /\ result' = IF kind = "ok" THEN "ok" ELSE "err_" \o kind
            /\ stderr' = stderr
    /\ cur' = NoPath
    /\ textDims' = <<0, 0>>
    /\ imgDims' = <<0, 0>>
    /\ origin' = NoOrigin
    /\ image' = NoData
    /\ buffer' = NoData

\* fs::read(&config.font_path)?; Font::try_from_vec(..).ok_or(..)?;
LoadFont ==
    /\ pc = "font"
    /\ Log("font")
    /\ IF fontOk
       THEN /\ pc' = "decode"
            /\ UNCHANGED <<workVars, cur, stderr, result>>
       ELSE Leave("font")
    /\ UNCHANGED <<envVars, fs, mode, listing, returned, written>>

DecodeLenient ==
    /\ pc = "decode"
    /\ Log("decode")
    /\ image' = Node(cur).data
    /\ imgDims' = <<Node(cur).data.w, Node(cur).data.h>>
    /\ stderr' = IF Node(cur).kind = "file" /\ Node(cur).data.decodable
                 THEN stderr
                 ELSE [stderr EXCEPT ![cur] = Append(@, "decode")]
    /\ pc' = "measure"
    /\ UNCHANGED <<envVars, textDims, origin, buffer, cur, result, fs, mode,
                   listing, returned, written>>

\* let image = image::open(image_path)?;
Decode ==
    /\ pc = "decode"
    /\ Log("decode")
    /\ IF Node(cur).kind = "file" /\ Node(cur).data.decodable
       THEN /\ image' = Node(cur).data
            /\ imgDims' = <<Node(cur).data.w, Node(cur).data.h>>
            /\ pc' = "measure"
            /\ UNCHANGED <<textDims, origin, buffer, cur, stderr, result>>
       ELSE Leave("decode")
    /\ UNCHANGED <<envVars, fs, mode, listing, returned, written>>

\* let (text_width, text_height) = text_size(scale, &font, &config.text);
Measure ==
    /\ pc = "measure"
    /\ Log("measure")
    /\ textDims' = TextSize
    /\ pc' = "resolve"
    /\ UNCHANGED <<envVars, imgDims, origin, image, buffer, fs, mode, listing,
                   returned, cur, stderr, written, result>>

\* let (x, y) = calculate_text_position(&image, ...);  a panic unwinds main
Resolve ==
    /\ pc = "resolve"
    /\ Log("resolve")
    /\ origin' = calculate_text_position(imgDims[1], imgDims[2],
                                         textDims[1], textDims[2],
                                         position, overflowChecks)
    /\ IF origin'.panic
       THEN pc' = "done" /\ result' = "panic"
       ELSE pc' = "composite" /\ result' = result
    /\ UNCHANGED <<envVars, textDims, imgDims, image, buffer, fs, mode, listing,
                   returned, cur, stderr, written>>

\* let mut rgba_image = image.to_rgba8(); draw_text_mut(&mut rgba_image, ...);
Composite ==
    /\ pc = "composite"
    /\ Log("composite")
    /\ buffer' = draw_text(image, origin.x, origin.y)
    /\ pc' = "write"
    /\ UNCHANGED <<envVars, textDims, imgDims, origin, image, fs, mode, listing,
                   returned, cur, stderr, written, result>>

\* rgba_image.save(output_path)?;  saving onto a directory fails
Write ==
    /\ pc = "write"
    /\ Log("write")
    /\ LET dst == output_path(cur)
       IN  IF Node(dst).kind = "dir"
           THEN /\ Leave("write")
                /\ UNCHANGED <<fs, written>>
           ELSE /\ fs' = [fs EXCEPT ![dst] = File(buffer)]
                /\ written' = [written EXCEPT
                                 ![cur] = Append(@, [dst |-> dst, data |-> buffer])]
                /\ Leave("ok")
    /\ UNCHANGED <<envVars, mode, listing, returned>>

Next ==
    \/ ParseConfig
    \/ EnterDir
    \/ EnterFile
    \/ RejectInput
    \/ \E path \in Names : NextEntry(path)
    \/ EndOfDir
    \/ LoadFont
    \/ Decode
    \/ Measure
    \/ Resolve
    \/ Composite
    \/ Write

Spec == Init /\ [][Next]_vars

(***************************************************************************)
(* SpecPos: the position resolver on bounded inputs.                       *)
(***************************************************************************)
ImgWidths == (0 .. MaxImg) \cup {100}
ImgHeights == (0 .. MaxImg) \cup {50}
TextWidths == (0 .. MaxText) \cup {30}
TextHeights == (0 .. MaxText) \cup {10}

InitPos ==
    /\ overflowChecks \in BOOLEAN
    /\ position \in Positions
    /\ textDims \in TextWidths \X TextHeights
    /\ imgDims \in ImgWidths \X ImgHeights
    /\ origin = NoOrigin
    /\ pc = "resolve"
    /\ configOk = TRUE
    /\ fontOk = TRUE
    /\ input = NoPath
    /\ fs0 = [n \in Names |-> Absent]
    /\ fs = fs0
    /\ image = NoData
    /\ buffer = NoData
    /\ mode = "none"
    /\ listing = {}
    /\ returned = {}
    /\ cur = NoPath
    /\ stages = EmptyLog
    /\ stderr = EmptyLog
    /\ written = EmptyLog
    /\ result = "running"

ResolvePos ==
    /\ pc = "resolve"
    /\ origin' = calculate_text_position(imgDims[1], imgDims[2],
                                         textDims[1], textDims[2],
                                         position, overflowChecks)
    /\ pc' = "resolved"
    /\ UNCHANGED <<envVars, textDims, imgDims, image, buffer, fs, mode, listing,
                   returned, cur, stages, stderr, written, result>>

NextPos == ResolvePos

SpecPos == InitPos /\ [][NextPos]_vars

(***************************************************************************)
(* The claims.  What follows states the specification's sentences; nothing *)
(* below is used by the specifications above.                              *)
(***************************************************************************)
AnchorH(pos) ==
    CASE pos \in {"top_left", "middle_left", "bottom_left"} -> "left"
      [] pos \in {"top_center", "middle_center", "bottom_center"} -> "center"
      [] pos \in {"top_right", "middle_right", "bottom_right"} -> "right"

AnchorV(pos) ==
    CASE pos \in {"top_left", "top_center", "top_right"} -> "top"
      [] pos \in {"middle_left", "middle_center", "middle_right"} -> "middle"
      [] pos \in {"bottom_left", "bottom_center", "bottom_right"} -> "bottom"

\* d / 2 on signed integers, truncating
SignedHalf(d) == IF d >= 0 THEN d \div 2 ELSE -((-d) \div 2)

\* the specification's axis formulas on mathematical integers
AxisX(W, tw, pos) ==
    CASE AnchorH(pos) = "left" -> 10
      [] AnchorH(pos) = "center" -> SignedHalf(W - tw)
      [] AnchorH(pos) = "right" -> W - tw - 10

AxisY(H, th, pos) ==
    CASE AnchorV(pos) = "top" -> 10
      [] AnchorV(pos) = "middle" -> SignedHalf(H - th)
      [] AnchorV(pos) = "bottom" -> H - th - 10

TextFits == textDims[1] <= imgDims[1] /\ textDims[2] <= imgDims[2]

\* C1: when the text is no larger than the image, calculate_text_position
\* returns x from the horizontal part of the anchor alone (Left 10, Center
\* (W - tw) / 2 truncating, Right W - tw - 10) and y from the vertical part
\* alone (Top 10, Middle (H - th) / 2, Bottom H - th - 10); 100 x 50 with a
\* 30 x 10 text at bottom_right gives (60, 30).
C1_AxisFormulas ==
    /\ (pc = "resolved" /\ TextFits) =>
          /\ ~origin.panic
          /\ origin.x = AxisX(imgDims[1], textDims[1], position)
          /\ origin.y = AxisY(imgDims[2], textDims[2], position)
    /\ (pc = "resolved" /\ imgDims = <<100, 50>> /\ textDims = <<30, 10>>
          /\ position = "bottom_right") =>
          (~origin.panic /\ origin.x = 60 /\ origin.y = 30)

C1_Witness ==
    /\ pc = "resolved"
    /\ imgDims = <<100, 50>> /\ textDims = <<30, 10>>
    /\ position = "bottom_right"
    /\ origin = [panic |-> FALSE, x |-> 60, y |-> 30]

\* C2: for an image of at least text + 2 * 10 on both axes, the origin keeps
\* the whole text box inside the image inset by 10: x >= 10, y >= 10,
\* x + tw <= W - 10, y + th <= H - 10, for every anchor.
C2_MarginInvariant ==
    (pc = "resolved"
        /\ imgDims[1] >= textDims[1] + 2 * 10
        /\ imgDims[2] >= textDims[2] + 2 * 10) =>
       /\ ~origin.panic
       /\ origin.x >= 10
       /\ origin.y >= 10
       /\ origin.x + textDims[1] <= imgDims[1] - 10
       /\ origin.y + textDims[2] <= imgDims[2] - 10

C2_Witness ==
    /\ pc = "resolved"
    /\ position = "bottom_center"
    /\ imgDims[1] = textDims[1] + 21
    /\ imgDims[2] = textDims[2] + 20
    /\ origin = [panic |-> FALSE, x |-> 10, y |-> 10]

\* C3: calculate_text_position has no failure mode: for every anchor and
\* every input, a text wider or higher than the image included, it returns,
\* and it returns the unclamped (possibly negative) coordinate of the signed
\* formula.
C3_NoFailureMode ==
    pc = "resolved" =>
       /\ ~origin.panic
       /\ origin.x = AxisX(imgDims[1], textDims[1], position)
       /\ origin.y = AxisY(imgDims[2], textDims[2], position)

(***************************************************************************)
(* Claims about process_images.                                            *)
(***************************************************************************)
\* every spelling, among the extensions that occur, of jpg jpeg png gif bmp webp
ImageExtSpellings == {"jpg", "jpeg", "png", "gif", "bmp", "webp", "JPG", "PNG"}

HasImageExt(n) == n.ext # <<>> /\ n.ext[1] \in ImageExtSpellings

\* <dir>/watermarked_<file name of n>
Prefixed(n) == [pre |-> n.pre + 1, stem |-> n.stem, ext |-> n.ext]

Kind0(p) == IF p \in Names THEN fs0[p].kind ELSE "absent"

\* the image files the directory holds when the run starts
InitialImageFiles == {n \in Names : fs0[n].kind = "file" /\ HasImageExt(n)}

NoInitialOutputs == \A n \in Names : n.pre > 0 => fs0[n] = Absent

\* C4: in directory mode every decodable image file gets exactly one
\* watermarked_ output, every corrupt one exactly one reported error and no
\* output, and the batch is never aborted.  (Stated for a run whose font
\* loads and whose directory holds no watermarked_ entry beforehand.)
C4_ErrorIsolation ==
    (pc = "done" /\ mode = "dir" /\ fontOk /\ NoInitialOutputs) =>
       /\ result = "ok"
       /\ \A n \in InitialImageFiles :
             IF fs0[n].data.decodable
             THEN Len(written[n]) = 1 /\ stderr[n] = <<>>
             ELSE written[n] = <<>> /\ stderr[n] = <<"decode">>

\* C5: a font that does not load is fatal: the run stops at the first
\* attempt, before any image is decoded, reports it once and ends with the
\* font error, in single-file and in directory mode.
C5_FontFailureFatal ==
    (pc = "done" /\ ~fontOk /\ \E n \in Names : stages[n] # <<>>) =>
       /\ result = "err_font"
       /\ Cardinality({n \in Names : stages[n] # <<>>}) = 1
       /\ \A n \in Names : stderr[n] = <<>>

\* C6 as claimed: every save goes to watermarked_<file name> beside the
\* source, and every input image file keeps the content it had when the run
\* started.
C6_InputsKeepContent ==
    /\ \A n \in Names : \A i \in 1 .. Len(written[n]) :
          written[n][i].dst = Prefixed(n)
    /\ \A n \in InitialImageFiles : fs[n] = fs0[n]

\* C6 as amended: every save for a source goes to watermarked_<file name>
\* beside it, which is never the source itself; a file changes only by
\* being the watermarked_ output of a processed file; every input whose
\* name does not begin with watermarked_ keeps its content.
C6_OutputBesideSource ==
    /\ \A n \in Names : \A i \in 1 .. Len(written[n]) :
          written[n][i].dst = Prefixed(n) /\ written[n][i].dst # n
    /\ \A n \in Names :
          fs[n] # fs0[n] =>
             \E s \in Names :
                /\ written[s] # <<>>
                /\ n = Prefixed(s)
                /\ fs[n] = File(written[s][Len(written[s])].data)
    /\ \A n \in Names : n.pre = 0 => fs[n] = fs0[n]

C6_Witness ==
    /\ pc = "done" /\ mode = "dir"
    /\ fs0[Name(1, "a", "png")].kind = "file"
    /\ written[Name(0, "a", "png")] # <<>>
    /\ fs[Name(1, "a", "png")] # fs0[Name(1, "a", "png")]
    /\ fs[Name(0, "a", "png")] = fs0[Name(0, "a", "png")]

InputInvalid ==
    /\ input # RootDir
    /\ Kind0(input) # "dir"
    /\ ~(Kind0(input) = "file" /\ HasImageExt(input))

\* a directory entry that is skipped: no stage runs for it, nothing is
\* printed for it, and a run in directory mode ends Ok unless it dies
\* inside the pipeline of an image file
EntriesSkipped ==
    /\ \A n \in returned :
          ~(fs[n].kind = "file" /\ HasImageExt(n)) =>
             (stages[n] = <<>> /\ stderr[n] = <<>> /\ written[n] = <<>>)
    /\ (pc = "done" /\ mode = "dir") =>
          \/ result = "ok" /\ listing \subseteq returned
          \/ /\ result = "panic"
             /\ fs[cur].kind = "file" /\ HasImageExt(cur)
             /\ stages[cur][Len(stages[cur])] = "resolve"

\* C7 as claimed: an input path that is neither a directory nor an image
\* file makes process_images fail with the invalid-input-path error, nothing
\* written; in directory mode an entry that is not an image file (a
\* sub-directory included) is skipped without an error and without aborting.
C7_InvalidInputRejected ==
    /\ (pc = "done" /\ InputInvalid) =>
          (result = "err_invalid_input" /\ fs = fs0)
    /\ EntriesSkipped

\* C7 as amended: the same, provided the configuration parses; when it does
\* not, the configuration error is returned first; nothing is written
\* either way.
C7_InputPathHandling ==
    /\ (pc = "done" /\ InputInvalid) =>
          /\ result = (IF configOk THEN "err_invalid_input" ELSE "err_config")
          /\ fs = fs0
          /\ \A n \in Names : stages[n] = <<>>
    /\ EntriesSkipped

C7_Witness ==
    /\ pc = "done"
    /\ configOk
    /\ input = Name(0, "n", "txt")
    /\ fs0[input].kind = "file"
    /\ result = "err_invalid_input"

\* what the run did for n
ActualOutcome(n) ==
    IF written[n] # <<>> THEN [status |-> "ok", data |-> written[n][1].data]
    ELSE IF stderr[n] # <<>> THEN [status |-> stderr[n][1], data |-> NoData]
    ELSE IF result = "panic" /\ n = cur THEN [status |-> "panic", data |-> NoData]
    ELSE [status |-> "none", data |-> NoData]

\* what n's content at the start and the config determine
ExpectedOutcome(n) ==
    IF ~fontOk THEN [status |-> "font", data |-> NoData]
    ELSE IF ~fs0[n].data.decodable THEN [status |-> "decode", data |-> NoData]
    ELSE LET o == calculate_text_position(fs0[n].data.w, fs0[n].data.h,
                                          TextSize[1], TextSize[2],
                                          position, overflowChecks)
         IN  IF o.panic THEN [status |-> "panic", data |-> NoData]
             ELSE IF Kind0(Prefixed(n)) = "dir"
                  THEN [status |-> "write", data |-> NoData]
                  ELSE [status |-> "ok", data |-> draw_text(fs0[n].data, o.x, o.y)]

\* C9: in a directory batch the outcome for each input file (success or
\* failure, and the content written) is determined by that file's content
\* at the start of the run and the config alone: not by the order of the
\* entries, nor by what happens to its siblings, nor by their outputs.
C9_PerFileIndependence ==
    (pc = "done" /\ mode = "dir") =>
       \A n \in InitialImageFiles : ActualOutcome(n) = ExpectedOutcome(n)

StageOrder == <<"decode", "measure", "resolve", "composite", "write">>

IsPrefix(s, t) == Len(s) <= Len(t) /\ \A i \in 1 .. Len(s) : s[i] = t[i]

NotFont(stage) == stage # "font"

\* the five stages run for n, in the order they ran
Pipeline(n) == SelectSeq(stages[n], NotFont)

Failed(n) ==
    \/ stderr[n] # <<>>
    \/ mode = "file" /\ n = input /\ result \in {"err_font", "err_decode", "err_write"}

Finished(n) == written[n] # <<>> \/ Failed(n)

\* C10: per file the stages run in the order Decode, Measure, Resolve,
\* Composite, Encode/Write, each at most once; the file is saved only after
\* every earlier stage ran; a failure ends the file's processing at the
\* failing stage with nothing saved; in directory mode a file's pipeline is
\* finished before another starts; and no stage runs unless the
\* configuration parsed.
C10_LinearPipeline ==
    \A n \in Names :
       /\ IsPrefix(Pipeline(n), StageOrder)
       /\ stages[n] # <<>> => stages[n][1] = "font" /\ configOk
       /\ written[n] # <<>> =>
             (Pipeline(n) = StageOrder /\ Len(written[n]) = 1 /\ ~Failed(n))
       /\ stderr[n] # <<>> =>
             /\ Len(stderr[n]) = 1
             /\ written[n] = <<>>
             /\ stages[n][Len(stages[n])] = stderr[n][1]
       /\ (mode = "file" /\ n = input /\ result = "err_decode") =>
             (Pipeline(n) = <<"decode">> /\ written[n] = <<>>)
       /\ (stages[n] # <<>> /\ ~Finished(n)) => n = cur
       /\ (n = cur /\ result = "panic") =>
             (stages[n][Len(stages[n])] = "resolve" /\ written[n] = <<>>)

C10_Witness ==
    /\ pc = "done" /\ mode = "dir" /\ result = "ok"
    /\ written[Name(0, "a", "png")] # <<>>
    /\ written[Name(1, "a", "png")] # <<>>
    /\ stderr[Name(0, "b", "JPG")] = <<"decode">>

=============================================================================
